---- MODULE Spec2Model ----
(***************************************************************************)
(* A model of pytumblr3: the paginated fetcher Client.get_posts, the root  *)
(* resolver Client.get_root_post, the pass-through Client.queue_reorder,   *)
(* the srcset parser get_srcset and the media extractor Post.get_images.   *)
(*                                                                         *)
(* The client is single-threaded and synchronous.  One behaviour of the    *)
(* model is one use of the client: the caller picks an operation and its   *)
(* arguments, and (for get_posts) pulls the generator item by item.  The   *)
(* HTTP collaborator is the environment: each of its answers is chosen     *)
(* from a small set when the call is made, and every call is logged.       *)
(*                                                                         *)
(* Python values of mixed type are tagged: PyStr(s) and PyInt(100) are the *)
(* string s and the integer 100 where both may occur (dictionary keys, an  *)
(* id next to the record that holds it); None is PyNone.  A dict whose     *)
(* keys are all strings is a TLA+ function on those strings.               *)
(***************************************************************************)
EXTENDS Integers, Sequences, FiniteSets, TLC

VARIABLES
    op,         \* the operation this run of the client performs
    gen,        \* get_posts: the generator's frame (position and locals)
    calls,      \* the endpoint calls made so far, in order
    responses,  \* the collaborator's answers to those calls, in order
    yielded,    \* get_posts: the items handed to the caller so far
    pulled,     \* get_posts: what the latest pull gave the caller
    input,      \* the other operations: the arguments as the caller passed them
    post,       \* the post object the caller passed, as it is now
    results     \* the other operations: their outcomes, one per invocation

vars == <<op, gen, calls, responses, yielded, pulled, input, post, results>>

-----------------------------------------------------------------------------
(* Bounds *)

MaxCalls == 4       \* the collaborator's MaxCalls-th answer ends the stream
MaxPageLen == 2     \* longest short page, besides those of 12 and of 50 posts

-----------------------------------------------------------------------------
(* Python values *)

PyStr(s) == [str |-> s]
PyInt(i) == [int |-> i]
PyNone == [none |-> TRUE]
EmptyDict == [k \in {} |-> 0]

\* how a call or a pull ends
NoPull == [kind |-> "none", value |-> PyNone, error |-> ""]
Return(v) == [kind |-> "return", value |-> v, error |-> ""]
Yield(v) == [kind |-> "yield", value |-> v, error |-> ""]
StopIteration == [kind |-> "StopIteration", value |-> PyNone, error |-> ""]
Raise(e) == [kind |-> "raise", value |-> PyNone, error |-> e]

\* dict.get(key, default)
Get(d, key, default) == IF key \in DOMAIN d THEN d[key] ELSE default

\* f(**explicit, **kwargs): a keyword given twice is a TypeError raised before
\* the callee runs
KeywordClash(explicit, kwargs) == DOMAIN explicit \cap DOMAIN kwargs # {}
MergeKw(explicit, kwargs) == explicit @@ kwargs

\* Post(post): calling a TypedDict class builds a plain dict with the same items
Post(p) == [k \in DOMAIN p |-> p[k]]

-----------------------------------------------------------------------------
(* The collaborator, as far as get_posts sees it *)

PageSize == 50

Methods == {"posts", "queue", "likes"}
Blognames == {"staff.tumblr.com"}
Errors == {"TransportError", "RateLimited"}

\* caller-supplied filters: none, a harmless one, and the two that get_posts
\* also passes itself
Filters == {EmptyDict, [before |-> 7], [offset |-> 100], [limit |-> 10]}

\* the n posts a server returns from position offset on
ServerPage(offset, n) == [i \in 1..n |-> [id |-> offset + i]]
\* a page that holds the same post twice
DuplicatePage == <<[id |-> 1], [id |-> 1]>>
PageLens == (0..MaxPageLen) \cup {12, PageSize}
Pages(offset) == {ServerPage(offset, n) : n \in PageLens} \cup {DuplicatePage}

Ok(body) == [ok |-> TRUE, body |-> body, error |-> ""]
Failure(e) == [ok |-> FALSE, body |-> EmptyDict, error |-> e]

Bodies(offset) ==
    {EmptyDict}
      \cup {[posts |-> p] : p \in Pages(offset)}
      \cup {[liked_posts |-> p] : p \in Pages(offset)}

IsTerminal(resp) ==
    \/ ~resp.ok
    \/ \A k \in DOMAIN resp.body : resp.body[k] = <<>>

\* the answers the collaborator may give to its n-th call
EndpointResponses(n, offset) ==
    LET all == {Ok(b) : b \in Bodies(offset)} \cup {Failure(e) : e \in Errors}
    IN  IF n < MaxCalls THEN all ELSE {resp \in all : IsTerminal(resp)}

-----------------------------------------------------------------------------
(* Client.get_posts *)

\* variant of ResponseKey: every family read under 'posts'
ResponseKeyAllPosts(m) == "posts"
\* _get_methods: which key of the answer holds the post list
ResponseKey(m) == IF m = "likes" THEN "liked_posts" ELSE "posts"

\* _get_methods: which endpoint is called, and with which arguments
EndpointCall(m, blogname, kw) ==
    IF m = "likes"
    THEN [fn |-> m, args |-> <<>>, kw |-> kw]
    ELSE [fn |-> m, args |-> <<blogname>>, kw |-> kw]

PostList(m, body) == Get(body, ResponseKey(m), <<>>)

\* variant of AdvanceOffset: the cursor moves by the number of items received
AdvanceOffsetByCount(offset, r) == offset + Len(r)
\* offset += 50
AdvanceOffset(offset, r) == offset + PageSize

\* variant of AfterResponse: a failed call leaves the generator at the while
\* test, so that the next pull repeats the call
AfterResponseRetrying(g, off, resp) ==
    LET r == PostList(g.method, resp.body)
    IN  IF ~resp.ok
        THEN [gen |-> [g EXCEPT !.pc = "yielding", !.offset = off - PageSize,
                                !.r = <<>>, !.i = 0],
              out |-> <<>>, pulled |-> Raise(resp.error)]
        ELSE IF r = <<>>
        THEN [gen |-> [g EXCEPT !.pc = "done", !.offset = off, !.r = <<>>, !.i = 0],
              out |-> <<>>, pulled |-> StopIteration]
        ELSE [gen |-> [g EXCEPT !.pc = "yielding", !.offset = off, !.r = r, !.i = 1],
              out |-> <<Post(r[1])>>, pulled |-> Yield(Post(r[1]))]
\* the generator after the endpoint answered resp to the call at offset off:
\* the walrus test of the while loop and the first step of the for loop
AfterResponse(g, off, resp) ==
    LET r == PostList(g.method, resp.body)
    IN  IF ~resp.ok
        THEN [gen |-> [g EXCEPT !.pc = "raised", !.offset = off, !.r = <<>>, !.i = 0],
              out |-> <<>>, pulled |-> Raise(resp.error)]
        ELSE IF r = <<>>
        THEN [gen |-> [g EXCEPT !.pc = "done", !.offset = off, !.r = <<>>, !.i = 0],
              out |-> <<>>, pulled |-> StopIteration]
        ELSE [gen |-> [g EXCEPT !.pc = "yielding", !.offset = off, !.r = r, !.i = 1],
              out |-> <<Post(r[1])>>, pulled |-> Yield(Post(r[1]))]

\* client.get_posts(blogname, method, **kwargs): builds the generator; no
\* line of the body runs before the first pull
GetPosts ==
    /\ op = "idle"
    /\ \E blogname \in Blognames, method \in Methods, kwargs \in Filters :
          gen' = [pc |-> "start", blogname |-> blogname, method |-> method,
                  kwargs |-> kwargs, offset |-> 0, r |-> <<>>, i |-> 0]
    /\ op' = "get_posts"
    /\ UNCHANGED <<calls, responses, yielded, pulled, input, post, results>>

\* a pull that finds the generator inside the for loop with items left
PullYield ==
    /\ op = "get_posts"
    /\ gen.pc = "yielding"
    /\ gen.i < Len(gen.r)
    /\ gen' = [gen EXCEPT !.i = @ + 1]
    /\ yielded' = Append(yielded, Post(gen.r[gen.i + 1]))
    /\ pulled' = Yield(Post(gen.r[gen.i + 1]))
    /\ UNCHANGED <<op, calls, responses, input, post, results>>

\* a pull that reaches the while test: the first pull, or one that finds the
\* for loop exhausted
PullFetch ==
    /\ op = "get_posts"
    /\ \/ gen.pc = "start"
       \/ gen.pc = "yielding" /\ gen.i >= Len(gen.r)
    /\ LET off == IF gen.pc = "start" THEN 0 ELSE AdvanceOffset(gen.offset, gen.r)
           explicit == [limit |-> PageSize, offset |-> off]
       IN  IF KeywordClash(explicit, gen.kwargs)
           THEN /\ gen' = [gen EXCEPT !.pc = "raised", !.r = <<>>, !.i = 0]
                /\ pulled' = Raise("TypeError")
                /\ UNCHANGED <<calls, responses, yielded>>
           ELSE \E resp \in EndpointResponses(Len(calls) + 1, off) :
                  LET next == AfterResponse(gen, off, resp)
                  IN  /\ calls' = Append(calls,
                                    EndpointCall(gen.method, gen.blogname,
                                                 MergeKw(explicit, gen.kwargs)))
                      /\ responses' = Append(responses, resp)
                      /\ gen' = next.gen
                      /\ yielded' = yielded \o next.out
                      /\ pulled' = next.pulled
    /\ UNCHANGED <<op, input, post, results>>

\* a pull on a generator that has returned or raised
PullFinished ==
    /\ op = "get_posts"
    /\ gen.pc \in {"done", "raised"}
    /\ pulled' = StopIteration
    /\ UNCHANGED <<op, gen, calls, responses, yielded, input, post, results>>

-----------------------------------------------------------------------------
(* Client.get_root_post *)

MaxTrail == 2       \* longest trail of a post

\* truth value of the objects the code tests with `or`: None and {} are falsy
Truthy(v) == v # PyNone /\ v # EmptyDict
Or(a, b) == IF Truthy(a) THEN a ELSE b

TrailBlogs == {"a.tumblr.com", "b.tumblr.com"}
TrailIds == {"101", "102"}

\* trail entries: is_root_item omitted, true or false
TrailEntries ==
    LET base == {[blog |-> [name |-> b], post |-> [id |-> PyStr(s)], content |-> <<>>] :
                    b \in TrailBlogs, s \in TrailIds}
    IN  base \cup {e @@ [is_root_item |-> f] : e \in base, f \in BOOLEAN}

RootInputs ==
    {[id |-> 1, content |-> <<>>, trail |-> t] :
        t \in UNION {[1..n -> TrailEntries] : n \in 0..MaxTrail}}

\* live posts a lookup may return (every post record carries at least its id)
LivePosts == {[id |-> 11, content |-> <<>>, trail |-> <<>>],
              [id |-> 12, content |-> <<>>, trail |-> <<>>]}

LookupResponses ==
    {Ok(EmptyDict)}
      \cup {Ok([posts |-> ps]) : ps \in UNION {[1..n -> LivePosts] : n \in 0..2}}
      \cup {Failure(e) : e \in Errors}

\* variant of IsRootItem: an entry without the flag counts as non-root
IsRootItemDefaultFalse(root_ref) == Get(root_ref, "is_root_item", FALSE)
\* root_ref.get('is_root_item', True)
IsRootItem(root_ref) == Get(root_ref, "is_root_item", TRUE)

\* post_id = root_ref['post']
LookupId(root_ref) == root_ref.post

\* variant of RootFromLookup: None when the lookup finds nothing, as the
\* docstring of get_root_post has it
RootFromLookupOrNone(p, result) ==
    LET ps == Get(result, "posts", <<>>)
        root == IF Len(ps) # 0 THEN ps[1] ELSE PyNone
    IN  root
\* the tail of the function, once the lookup has answered
RootFromLookup(p, result) ==
    LET ps == Get(result, "posts", <<>>)
        root == IF Len(ps) # 0 THEN ps[1] ELSE PyNone
    IN  Or(root, p)

GetRootPost ==
    /\ op = "idle"
    /\ op' = "get_root_post"
    /\ \E p \in RootInputs :
         /\ input' = p
         /\ post' = p
         /\ IF p.trail = <<>>
            THEN /\ results' = <<Return(Or(PyNone, p))>>
                 /\ UNCHANGED <<calls, responses>>
            ELSE LET root_ref == p.trail[1]
                 IN  IF ~IsRootItem(root_ref)
                     THEN /\ results' = <<Raise("AssertionError")>>
                          /\ UNCHANGED <<calls, responses>>
                     ELSE \E resp \in LookupResponses :
                            /\ calls' = <<[fn |-> "posts",
                                           args |-> <<root_ref.blog.name>>,
                                           kw |-> [id |-> LookupId(root_ref)]]>>
                            /\ responses' = <<resp>>
                            /\ results' = IF resp.ok
                                          THEN <<Return(RootFromLookup(p, resp.body))>>
                                          ELSE <<Raise(resp.error)>>
    /\ UNCHANGED <<gen, yielded, pulled>>

-----------------------------------------------------------------------------
(* Client.queue_reorder *)

NumQueueIds == 2    \* post ids 0..NumQueueIds in queue_reorder's arguments

\* d[k] = v on a dict whose keys are tagged values
DictSet(d, k, v) == [x \in DOMAIN d \cup {k} |-> IF x = k THEN v ELSE d[x]]

\* the dict display { post_id: post_id, insert_after: insert_after }: the keys
\* are the values of the two variables
ReorderParams(post_id, insert_after) ==
    DictSet(DictSet(EmptyDict, PyInt(post_id), PyInt(post_id)),
            PyInt(insert_after), PyInt(insert_after))

ReorderUrl(blogname) == "/v2/blog/" \o blogname \o "/posts/queue/reorder"

\* the arguments a caller may pass: insert_after is optional
ReorderArgs ==
    {[blogname |-> b, post_id |-> p] : b \in Blognames, p \in 0..NumQueueIds}
      \cup {[blogname |-> b, post_id |-> p, insert_after |-> a] :
               b \in Blognames, p \in 0..NumQueueIds, a \in 0..NumQueueIds}

QueueReorder ==
    /\ op = "idle"
    /\ op' = "queue_reorder"
    /\ \E a \in ReorderArgs, resp \in {Ok(EmptyDict), Failure("TransportError")} :
         LET insert_after == Get(a, "insert_after", 0)
         IN  /\ input' = a
             /\ calls' = <<[fn |-> "send_api_request",
                            args |-> <<"get", ReorderUrl(a.blogname),
                                       ReorderParams(a.post_id, insert_after)>>,
                            kw |-> EmptyDict]>>
             /\ responses' = <<resp>>
             /\ results' = IF resp.ok THEN <<Return(resp.body)>>
                                      ELSE <<Raise(resp.error)>>
    /\ UNCHANGED <<gen, yielded, pulled, post>>

-----------------------------------------------------------------------------
(* get_srcset *)

MaxTokens == 3      \* most tokens in a srcset string

\* A string that the code takes apart is a sequence of one-character strings.
Space == <<" ">>
CommaSpace == <<",", " ">>
MaxKey == PyStr(<<"m", "a", "x">>)

StartsAt(s, j, sep) ==
    /\ j + Len(sep) - 1 <= Len(s)
    /\ SubSeq(s, j, j + Len(sep) - 1) = sep

\* str.find(sep): the first position of sep in s, 0 when there is none
Find(s, sep) ==
    LET hits == {j \in 1..Len(s) : StartsAt(s, j, sep)}
    IN  IF hits = {} THEN 0 ELSE CHOOSE j \in hits : \A h \in hits : j <= h

\* str.split(sep)
RECURSIVE Split(_, _)
Split(s, sep) ==
    LET j == Find(s, sep)
    IN  IF j = 0 THEN <<s>>
        ELSE <<SubSeq(s, 1, j - 1)>> \o Split(SubSeq(s, j + Len(sep), Len(s)), sep)

\* str.split(sep, 1)
SplitOnce(s, sep) ==
    LET j == Find(s, sep)
    IN  IF j = 0 THEN <<s>>
        ELSE <<SubSeq(s, 1, j - 1), SubSeq(s, j + Len(sep), Len(s))>>

\* str.endswith(suffix)
EndsWith(s, suffix) ==
    /\ Len(suffix) <= Len(s)
    /\ SubSeq(s, Len(s) - Len(suffix) + 1, Len(s)) = suffix

DigitChars == <<"0", "1", "2", "3", "4", "5", "6", "7", "8", "9">>
IsDigit(c) == \E d \in 1..10 : DigitChars[d] = c
DigitValue(c) == (CHOOSE d \in 1..10 : DigitChars[d] = c) - 1

\* str.strip() for spaces
RECURSIVE Strip(_)
Strip(s) ==
    IF s = <<>> THEN s
    ELSE IF Head(s) = " " THEN Strip(Tail(s))
    ELSE IF s[Len(s)] = " " THEN Strip(SubSeq(s, 1, Len(s) - 1))
    ELSE s

RECURSIVE DigitsValue(_)
DigitsValue(s) ==
    IF s = <<>> THEN 0
    ELSE 10 * DigitsValue(SubSeq(s, 1, Len(s) - 1)) + DigitValue(s[Len(s)])

\* int(s) for the strings built from digits, spaces and letters: the value, or
\* -1 where int raises ValueError
ParseInt(s) ==
    LET t == Strip(s)
    IN  IF t # <<>> /\ \A j \in 1..Len(t) : IsDigit(t[j])
        THEN DigitsValue(t)
        ELSE -1

\* variant of WithMax: 'max' is the URL of the numerically largest width
WithMaxOfWidest(srcset, url) ==
    LET widths == {k.int : k \in DOMAIN srcset}
        widest == CHOOSE w \in widths : \A v \in widths : v <= w
    IN  DictSet(srcset, MaxKey, srcset[PyInt(widest)])
\* srcset['max'] = url
WithMax(srcset, url) == DictSet(srcset, MaxKey, url)

\* the for loop over the tokens, then the two closing statements
RECURSIVE SrcsetLoop(_, _, _)
SrcsetLoop(parts, srcset, url) ==
    IF parts = <<>>
    THEN Return(WithMax(srcset, url))
    ELSE LET pieces == SplitOnce(Head(parts), Space)
         IN  IF Len(pieces) # 2
             THEN Raise("ValueError")
             ELSE IF ~EndsWith(pieces[2], <<"w">>)
             THEN Raise("AssertionError")
             ELSE LET width == ParseInt(SubSeq(pieces[2], 1, Len(pieces[2]) - 1))
                  IN  IF width = -1
                      THEN Raise("ValueError")
                      ELSE SrcsetLoop(Tail(parts),
                                      DictSet(srcset, PyInt(width), PyStr(pieces[1])),
                                      PyStr(pieces[1]))

get_srcset(srcset_raw) ==
    IF srcset_raw = PyNone \/ srcset_raw = PyStr(<<>>)
    THEN Return(EmptyDict)
    ELSE SrcsetLoop(Split(srcset_raw.str, CommaSpace), EmptyDict, PyNone)

\* The inputs: the srcset strings written from up to MaxTokens tokens, the
\* same strings with the width suffix left out or wrong, and a few strings
\* that are not srcsets at all.
SrcsetUrls == {<<"a">>, <<"w", "1">>}
SrcsetWidths == {1, 2, 10}
SrcsetTokens == {[url |-> u, width |-> w] : u \in SrcsetUrls, w \in SrcsetWidths}
TokenLists == UNION {[1..n -> SrcsetTokens] : n \in 1..MaxTokens}

RECURSIVE Decimal(_)
Decimal(n) ==
    IF n < 10 THEN <<DigitChars[n + 1]>>
    ELSE Decimal(n \div 10) \o <<DigitChars[(n % 10) + 1]>>

RECURSIVE WriteSrcset(_, _)
WriteSrcset(tokens, suffix) ==
    LET t == Head(tokens)
        one == t.url \o Space \o Decimal(t.width) \o suffix
    IN  IF Len(tokens) = 1 THEN one
        ELSE one \o CommaSpace \o WriteSrcset(Tail(tokens), suffix)

SrcsetInputs ==
    {[tokens |-> ts, suffix |-> sf, raw |-> PyStr(WriteSrcset(ts, sf))] :
        ts \in TokenLists, sf \in {<<"w">>, <<>>, <<"x">>}}
      \cup {[tokens |-> <<>>, suffix |-> <<>>, raw |-> r] :
               r \in {PyNone, PyStr(<<>>), PyStr(<<"a">>), PyStr(<<"a", " ", "w">>),
                      PyStr(<<"a", " ", " ", "7", "w">>)}}

GetSrcset ==
    /\ op = "idle"
    /\ op' = "get_srcset"
    /\ \E a \in SrcsetInputs :
         /\ input' = a
         /\ results' = <<get_srcset(a.raw)>>
    /\ UNCHANGED <<gen, calls, responses, yielded, pulled, post>>

-----------------------------------------------------------------------------
(* Post.get_images *)

MaxBlocks == 2      \* most content blocks of a post or of a trail entry

Media1 == [width |-> 100, url |-> "a.jpg"]
Media2 == [width |-> 200, url |-> "b.jpg"]
Media3 == [width |-> 100, url |-> "c.jpg"]

Blocks == {[type |-> "text"],
           [type |-> "image", media |-> <<Media1>>],
           [type |-> "image", media |-> <<Media1, Media2>>],
           [type |-> "image", media |-> <<Media2, Media3, Media1>>]}
Contents == UNION {[1..n -> Blocks] : n \in 0..MaxBlocks}

\* what the trail entries hold
TrailContents ==
    {<<>>,
     <<[type |-> "text"]>>,
     <<[type |-> "image", media |-> <<Media1>>]>>,
     <<[type |-> "text"], [type |-> "image", media |-> <<Media1>>]>>,
     <<[type |-> "image", media |-> <<Media2, Media3, Media1>>],
       [type |-> "image", media |-> <<Media1, Media2>>]>>}

ImageTrails ==
    UNION {[1..n -> {[blog |-> [name |-> "a.tumblr.com"], post |-> [id |-> PyStr("101")],
                      content |-> c] : c \in TrailContents}] : n \in 0..MaxTrail}

\* posts with a trail, and posts without the key
ImageInputs ==
    {[id |-> 1, content |-> c] : c \in Contents}
      \cup {[id |-> 1, content |-> c, trail |-> t] : c \in Contents, t \in ImageTrails}

\* { t['width']: t['url'] for t in block['media'] }
RECURSIVE MediaDict(_, _)
MediaDict(media, d) ==
    IF media = <<>> THEN d
    ELSE MediaDict(Tail(media),
                   [w \in DOMAIN d \cup {Head(media).width} |->
                       IF w = Head(media).width THEN Head(media).url ELSE d[w]])

\* variant of Candidates: the trail entries come before the post
CandidatesTrailFirst(self) ==
    [posts |-> IF "trail" \in DOMAIN self THEN self.trail \o <<self>> ELSE <<self>>,
     self |-> self]
\* posts = [self]; if 'trail' in self: posts += self['trail']
\* (+= extends the new list; the list under self['trail'] is only read, so
\* the post comes out as it went in)
Candidates(self) ==
    [posts |-> IF "trail" \in DOMAIN self THEN <<self>> \o self.trail ELSE <<self>>,
     self |-> self]

\* the inner for loop over one candidate's content
RECURSIVE BlockImages(_)
BlockImages(content) ==
    IF content = <<>> THEN <<>>
    ELSE IF Head(content).type # "image" THEN BlockImages(Tail(content))
    ELSE <<MediaDict(Head(content).media, EmptyDict)>> \o BlockImages(Tail(content))

\* the outer for loop
RECURSIVE ImagesOf(_)
ImagesOf(posts) ==
    IF posts = <<>> THEN <<>>
    ELSE BlockImages(Head(posts).content) \o ImagesOf(Tail(posts))

\* list(Post.get_images(post)): the generator pulled to its end
GetImages ==
    /\ op \in {"idle", "get_images"}
    /\ Len(results) < 2
    /\ op' = "get_images"
    /\ \E p \in IF op = "idle" THEN ImageInputs ELSE {post} :
         LET c == Candidates(p)
         IN  /\ input' = IF op = "idle" THEN p ELSE input
             /\ post' = c.self
             /\ results' = Append(results, Return(ImagesOf(c.posts)))
    /\ UNCHANGED <<gen, calls, responses, yielded, pulled>>

-----------------------------------------------------------------------------

Init ==
    /\ op = "idle"
    /\ gen = [pc |-> "none", blogname |-> "", method |-> "posts",
              kwargs |-> EmptyDict, offset |-> 0, r |-> <<>>, i |-> 0]
    /\ calls = <<>>
    /\ responses = <<>>
    /\ yielded = <<>>
    /\ pulled = NoPull
    /\ input = PyNone
    /\ post = PyNone
    /\ results = <<>>

Next ==
    \/ GetPosts
    \/ PullYield
    \/ PullFetch
    \/ PullFinished
    \/ GetRootPost
    \/ QueueReorder
    \/ GetSrcset
    \/ GetImages

Spec == Init /\ [][Next]_vars

-----------------------------------------------------------------------------
(* Properties *)

\* the concatenation of a sequence of sequences
RECURSIVE Flatten(_)
Flatten(seqs) == IF seqs = <<>> THEN <<>> ELSE Head(seqs) \o Flatten(Tail(seqs))

\* the post list of the k-th answer, read under the key of the selected
\* endpoint family; an answer without that key has the empty list
ListOf(k) ==
    LET key == IF gen.method = "likes" THEN "liked_posts" ELSE "posts"
        body == responses[k].body
    IN  IF key \in DOMAIN body THEN body[key] ELSE <<>>

PageSizes == [k \in 1..Len(responses) |-> Len(ListOf(k))]

\* C1: pulling get_posts to its end yields exactly the items of the pages
\* that precede the first empty or absent post list, in page order and in
\* in-page order, each once, and no endpoint call follows the empty page;
\* page sizes 50, 50, 12, 0 give 112 posts over 4 calls, and an empty first
\* page gives no post after 1 call.
C1_FullPullYieldsAllPages ==
    op = "get_posts" =>
      /\ Len(calls) = Len(responses)
      /\ \A k \in 1..(Len(responses) - 1) : ListOf(k) # <<>>
      /\ gen.pc = "yielding" =>
            /\ responses # <<>>
            /\ gen.i \in 1..Len(ListOf(Len(responses)))
            /\ yielded = Flatten([k \in 1..(Len(responses) - 1) |-> ListOf(k)])
                          \o SubSeq(ListOf(Len(responses)), 1, gen.i)
      /\ gen.pc = "done" =>
            /\ ListOf(Len(responses)) = <<>>
            /\ yielded = Flatten([k \in 1..(Len(responses) - 1) |-> ListOf(k)])
            /\ PageSizes = <<50, 50, 12, 0>> => Len(yielded) = 112 /\ Len(calls) = 4
            /\ PageSizes = <<0>> => yielded = <<>> /\ Len(calls) = 1

C1_Witness ==
    /\ op = "get_posts"
    /\ gen.pc = "done"
    /\ pulled = StopIteration
    /\ PageSizes = <<50, 50, 12, 0>>
    /\ Len(yielded) = 112

\* C2: with filters that hold neither limit nor offset, the k-th endpoint
\* call carries limit = 50, offset = 50 * (k - 1) and the caller's filters
\* unchanged, whatever the sizes of the pages so far; the cursor is at the
\* offset of the latest call.
C2_KthCallAtOffset50k ==
    (op = "get_posts" /\ DOMAIN gen.kwargs \cap {"limit", "offset"} = {}) =>
      /\ \A k \in 1..Len(calls) :
            /\ DOMAIN calls[k].kw = {"limit", "offset"} \cup DOMAIN gen.kwargs
            /\ calls[k].kw.limit = 50
            /\ calls[k].kw.offset = 50 * (k - 1)
            /\ \A f \in DOMAIN gen.kwargs : calls[k].kw[f] = gen.kwargs[f]
            /\ calls[k].fn = gen.method
      /\ calls # <<>> => gen.offset = 50 * (Len(calls) - 1)

C2_Witness ==
    /\ op = "get_posts"
    /\ gen.kwargs = [before |-> 7]
    /\ Len(calls) = 3
    /\ Len(ListOf(1)) = 1
    /\ Len(ListOf(2)) = 12
    /\ calls[3].kw.offset = 100

\* C3: when the endpoint call for a page fails, the pull that made the call
\* raises that very error, the call is not repeated, the sequence makes no
\* endpoint call afterwards and yields nothing beyond the items of the pages
\* fetched before the failure.
C3_FailureEndsSequence ==
    /\ [](op = "get_posts" =>
            \A k \in 1..Len(responses) :
               ~responses[k].ok =>
                  /\ k = Len(responses)
                  /\ Len(calls) = k
                  /\ gen.pc = "raised"
                  /\ pulled \in {Raise(responses[k].error), StopIteration}
                  /\ yielded = Flatten([j \in 1..(k - 1) |-> ListOf(j)]))
    /\ [][(op = "get_posts" /\ Len(responses') > Len(responses)
             /\ ~responses'[Len(responses')].ok)
            => pulled' = Raise(responses'[Len(responses')].error)]_vars

C3_Witness ==
    /\ op = "get_posts"
    /\ Len(responses) = 3
    /\ ~responses[3].ok
    /\ Len(yielded) = 52
    /\ pulled = StopIteration

\* C4: a new fetch given the filter offset = k makes its first endpoint call
\* at offset k and yields the posts from that position onwards.
C4_ResumeAtExplicitOffset ==
    (op = "get_posts" /\ "offset" \in DOMAIN gen.kwargs /\ pulled # NoPull) =>
      /\ calls # <<>>
      /\ calls[1].kw.offset = gen.kwargs.offset
      /\ pulled.kind \in {"yield", "StopIteration"} \/ pulled.error \in Errors

\* the posts of the lookup's answer; a missing `posts` list counts as empty
LookupPosts ==
    IF "posts" \in DOMAIN responses[1].body THEN responses[1].body.posts ELSE <<>>

\* the first trail entry says is_root_item = false
MarkedNonRoot(p) ==
    /\ "is_root_item" \in DOMAIN p.trail[1]
    /\ p.trail[1].is_root_item = FALSE

C6_SingleLookupById ==
    (op = "get_root_post" /\ results # <<>>) =>
      /\ input.trail = <<>> => calls = <<>>
      /\ (input.trail # <<>> /\ ~MarkedNonRoot(input)) =>
            calls = <<[fn |-> "posts",
                       args |-> <<input.trail[1].blog.name>>,
                       kw |-> [id |-> input.trail[1].post.id]]>>

\* C7: a first trail entry that says is_root_item = false makes get_root_post
\* fail with the validation (assertion) error before any lookup; an entry
\* that omits the flag or says true raises no such error and the lookup is
\* made.
C7_NonRootEntryFails ==
    (op = "get_root_post" /\ results # <<>> /\ input.trail # <<>>) =>
      IF MarkedNonRoot(input)
      THEN results = <<Raise("AssertionError")>> /\ calls = <<>>
      ELSE results[1] # Raise("AssertionError") /\ Len(calls) = 1

C7_Witness ==
    /\ op = "get_root_post"
    /\ input.trail # <<>>
    /\ MarkedNonRoot(input)
    /\ results = <<Raise("AssertionError")>>
    /\ calls = <<>>

\* C8: queue_reorder sends a GET on /v2/blog/{blogname}/posts/queue/reorder
\* whose body maps the key "post_id" to the given post_id and the key
\* "insert_after" to the given insert_after (0 when not given), and nothing
\* else.
C8_ReorderBodyNamesParameters ==
    op = "queue_reorder" =>
      LET insert_after == IF "insert_after" \in DOMAIN input
                          THEN input.insert_after ELSE 0
          body == calls[1].args[3]
      IN  /\ Len(calls) = 1
          /\ calls[1].args[1] = "get"
          /\ calls[1].args[2] = "/v2/blog/" \o input.blogname \o "/posts/queue/reorder"
          /\ DOMAIN body = {PyStr("post_id"), PyStr("insert_after")}
          /\ body[PyStr("post_id")] = PyInt(input.post_id)
          /\ body[PyStr("insert_after")] = PyInt(insert_after)

\* C9: for a valid srcset string get_srcset returns a mapping whose "max"
\* value is the URL of the last token, whose other keys are exactly the
\* parsed widths, each mapped to the URL of the (last) token with that width;
\* empty or absent input gives the empty mapping.
C9_SrcsetMaxIsLastToken ==
    (op = "get_srcset" /\ results # <<>>) =>
      /\ input.raw \in {PyNone, PyStr(<<>>)} => results = <<Return(EmptyDict)>>
      /\ (input.tokens # <<>> /\ input.suffix = <<"w">>) =>
            LET ts == input.tokens
                d == results[1].value
                LastWith(w) == CHOOSE i \in 1..Len(ts) :
                                  /\ ts[i].width = w
                                  /\ \A j \in (i + 1)..Len(ts) : ts[j].width # w
            IN  /\ results[1].kind = "return"
                /\ MaxKey \in DOMAIN d
                /\ d[MaxKey] = PyStr(ts[Len(ts)].url)
                /\ DOMAIN d \ {MaxKey} = {PyInt(ts[i].width) : i \in 1..Len(ts)}
                /\ \A i \in 1..Len(ts) :
                      d[PyInt(ts[i].width)] = PyStr(ts[LastWith(ts[i].width)].url)

C9_Witness ==
    /\ op = "get_srcset"
    /\ Len(input.tokens) = 3
    /\ input.suffix = <<"w">>
    /\ input.tokens[1].width = 2
    /\ input.tokens[2].width = 10
    /\ input.tokens[3].width = 1
    /\ input.tokens[3].url # input.tokens[2].url
    /\ results[1].kind = "return"
    /\ results[1].value[MaxKey] = PyStr(input.tokens[3].url)

\* the content blocks of the post and then of its trail entries, in order
AllBlocks(p) ==
    p.content \o (IF "trail" \in DOMAIN p
                  THEN Flatten([k \in 1..Len(p.trail) |-> p.trail[k].content])
                  ELSE <<>>)

IsImage(block) == block.type = "image"

\* C10: get_images yields one width-to-URL mapping per image block, the
\* post's own blocks first and then those of each trail entry in trail order;
\* other blocks yield nothing and raise no error; each mapping has as keys
\* exactly the widths of its block's media entries; a second invocation on
\* the same post yields the same sequence and the post is left as it was.
C10_OneMappingPerImageBlock ==
    (op = "get_images" /\ results # <<>>) =>
      LET imgs == SelectSeq(AllBlocks(input), IsImage)
          out == results[1].value
      IN  /\ results[1].kind = "return"
          /\ Len(out) = Len(imgs)
          /\ \A k \in 1..Len(imgs) :
                /\ DOMAIN out[k] = {imgs[k].media[j].width : j \in 1..Len(imgs[k].media)}
                /\ \A w \in DOMAIN out[k] :
                      \E j \in 1..Len(imgs[k].media) :
                         imgs[k].media[j].width = w /\ imgs[k].media[j].url = out[k][w]
          /\ post = input
          /\ Len(results) = 2 => results[2] = results[1]

C10_Witness ==
    /\ op = "get_images"
    /\ Len(results) = 2
    /\ "trail" \in DOMAIN input
    /\ input.content = <<[type |-> "image", media |-> <<Media1, Media2>>]>>
    /\ Len(input.trail) = 1
    /\ input.trail[1].content = <<[type |-> "text"], [type |-> "image", media |-> <<Media1>>]>>
    /\ Len(results[1].value) = 2
    /\ DOMAIN results[1].value[1] = {100, 200}
    /\ DOMAIN results[1].value[2] = {100}

====
